---- MODULE Spec2Model ----
(***************************************************************************)
(* A model of nmrpc's network configuration code:                          *)
(*   src/src/networkcfg.rs  IPConfig, NetworkConfig (save, set_manual,     *)
(*                          set_dhcp, handle_*, from_settings)             *)
(*   src/src/nmmgr.rs       MapNMManger (new_future, connection_by_name,   *)
(*                          get_deafult_mapping)                           *)
(* NetworkManager (the nm crate) is the external collaborator: its         *)
(* connections and settings objects are modelled as records, its calls as  *)
(* the operators named after them.                                         *)
(***************************************************************************)
EXTENDS Integers, Sequences, FiniteSets, TLC

VARIABLES
    connection,     \* SpecApply: the connection object whose IP settings are handled
    slot,           \* SpecApply: the settings slot under observation ("ip4"/"ip6")
    lastOp,         \* SpecApply: the last operation on the slot and its outcome
    readback,       \* SpecApply: the result of IPConfig::from_settings, or NotRead
    conns,          \* the manager's persisted connections, by identifier
    save_pc,        \* NetworkConfig::save: position in the function
    self_cfg,       \* NetworkConfig::save: the NetworkConfig being saved (self)
    work,           \* NetworkConfig::save: the RemoteConnection held by the client
    save_log,       \* NetworkConfig::save: the steps of the current save, in order
    save_ret,       \* NetworkConfig::save: the value returned by the last save
    map,            \* MapNMManger.map
    created_ifaces, \* MapNMManger.created_ifaces
    res_pc,         \* connection_by_name: position in the function
    res_name,       \* connection_by_name: the name argument
    res_absent,     \* connection_by_name: whether its first lookup found nothing
    res_ret,        \* connection_by_name: the value returned by the last call
    requests,       \* the creation requests of the current connection_by_name call
    calls,          \* the last two events: completed calls and external deletions
    accepted,       \* the names of the creation requests the manager accepted
    devices,        \* the manager's devices, in the order client.devices() yields
    disc_ret,       \* the value returned by the last get_deafult_mapping
    new_arg,        \* MapNMManger::new_future: its argument, or NotBuilt
    enumerated,     \* how many times client.devices() has been called
    load_pc,        \* NetworkConfig::new_future: position in the function
    load_name,      \* NetworkConfig::new_future: the name argument
    load_ret        \* NetworkConfig::new_future: the value returned

vars == <<connection, slot, lastOp, readback, conns, save_pc, self_cfg, work,
          save_log, save_ret, map, created_ifaces, res_pc, res_name, res_absent,
          res_ret, requests, calls, accepted, devices, disc_ret, new_arg,
          enumerated, load_pc, load_name, load_ret>>

applyVars == <<connection, slot, lastOp, readback>>
saveVars == <<save_pc, self_cfg, work, save_log, save_ret>>
regVars == <<map, created_ifaces, res_pc, res_name, res_absent, res_ret,
            requests, calls, accepted>>
ctorVars == <<devices, disc_ret, new_arg, enumerated>>
loadVars == <<load_pc, load_name, load_ret>>

----------------------------------------------------------------------------
(* Bounds *)

\* How many of the address strings of each family the inputs are drawn from.
NumAddrs == 3

\* The longest address / DNS list another client of the manager leaves behind.
MaxExtList == 2

\* connection_by_name is called while created_ifaces is shorter than this.
MaxCreated == 2

\* The most devices the manager enumerates.
NumDevices == 3

----------------------------------------------------------------------------
(* Values *)

None == [tag |-> "None"]
Some(x) == [tag |-> "Some", val |-> x]

V4Table == <<"10.0.0.5", "10.0.0.1", "8.8.8.8", "192.168.233.233", "192.168.233.1">>
V6Table == <<"fd00::5", "fd00::1", "2001:4860:4860::8888", "fd00::9", "fd00::a">>

V4Strings == {V4Table[i] : i \in 1..Len(V4Table)}
V6Strings == {V6Table[i] : i \in 1..Len(V6Table)}

AddrTable(v) == IF v = "V4" THEN V4Table ELSE V6Table

\* The address strings the inputs use.
Texts(v) == {AddrTable(v)[i] : i \in 1..NumAddrs}

\* std::net::IpAddr: the enum variant and the address it holds.
IpAddr(v, text) == [v |-> v, text |-> text]

IpAddrs(v) == {IpAddr(v, t) : t \in Texts(v)}

\* IpAddr::to_string
to_string(ip) == ip.text

ParseError == [v |-> "Err", text |-> ""]

\* str::parse::<IpAddr>: the variant is decided by the text; Err for other text.
parse(text) ==
    IF text \in V4Strings THEN IpAddr("V4", text)
    ELSE IF text \in V6Strings THEN IpAddr("V6", text)
    ELSE ParseError

\* libc::AF_INET / libc::AF_INET6
AF_INET == "AF_INET"
AF_INET6 == "AF_INET6"

\* The nm crate's method constants. Each is a string of libnm; the v4 and the v6
\* constant of one method are the same string ("manual", "auto"). const is the
\* constant the code named, str is the value the settings object stores.
SETTING_IP4_CONFIG_METHOD_MANUAL == [const |-> "IP4_MANUAL", str |-> "manual"]
SETTING_IP6_CONFIG_METHOD_MANUAL == [const |-> "IP6_MANUAL", str |-> "manual"]
SETTING_IP4_CONFIG_METHOD_AUTO == [const |-> "IP4_AUTO", str |-> "auto"]
SETTING_IP6_CONFIG_METHOD_AUTO == [const |-> "IP6_AUTO", str |-> "auto"]

Methods == {SETTING_IP4_CONFIG_METHOD_MANUAL, SETTING_IP6_CONFIG_METHOD_MANUAL,
            SETTING_IP4_CONFIG_METHOD_AUTO, SETTING_IP6_CONFIG_METHOD_AUTO}

\* The largest prefix nm::IPAddress::new accepts for a family.
MaxPrefix(family) == IF family = AF_INET THEN 32 ELSE 128

\* The prefixes the inputs use: one the manager accepts and one it rejects.
Prefixes(v) == IF v = "V4" THEN {24, 33} ELSE {64, 129}

\* struct IPConfig
IPConfig(address, gateway, dns, prefix) ==
    [address |-> address, gateway |-> gateway, dns |-> dns, prefix |-> prefix]

OptIpAddrs(v) == {None} \cup {Some(a) : a \in IpAddrs(v)}

\* The IPConfig values of one family (3. DATA MODEL: gateway and dns share the
\* family of address).
IPConfigs(v) ==
    {IPConfig(a, g, d, p) : a \in IpAddrs(v), g \in OptIpAddrs(v),
                            d \in OptIpAddrs(v), p \in Prefixes(v)}

SlotFamily(s) == IF s = "ip4" THEN "V4" ELSE "V6"
SlotVersion(s) == IF s = "ip4" THEN 4 ELSE 6
Slots == {"ip4", "ip6"}

----------------------------------------------------------------------------
(* nm::SettingIPConfig, the settings object of one IP version *)

\* SettingIP4Config::new() / SettingIP6Config::new()
NewSetting(kind) ==
    [kind |-> kind, method |-> None, addresses |-> <<>>, dns |-> <<>>,
     gateway |-> None]

SettingIP4Config_new == NewSetting("ip4")
SettingIP6Config_new == NewSetting("ip6")

clear_addresses(s) == [s EXCEPT !.addresses = <<>>]
clear_dns(s) == [s EXCEPT !.dns = <<>>]
set_method(s, m) == [s EXCEPT !.method = Some(m)]
set_gateway(s, g) == [s EXCEPT !.gateway = g]

InSeq(x, xs) == \E i \in 1..Len(xs) : xs[i] = x

\* add_address / add_dns append the entry unless the list already holds it.
add_address(s, a) ==
    IF InSeq(a, s.addresses) THEN s ELSE [s EXCEPT !.addresses = Append(@, a)]
add_dns(s, d) ==
    IF InSeq(d, s.dns) THEN s ELSE [s EXCEPT !.dns = Append(@, d)]

\* settings.address(0), settings.dns(0): the entry, or None past the end.
address_at0(s) == IF Len(s.addresses) > 0 THEN Some(s.addresses[1]) ELSE None
dns_at0(s) == IF Len(s.dns) > 0 THEN Some(s.dns[1]) ELSE None

FamilyOf(inet) == IF inet = AF_INET THEN "V4" ELSE "V6"

\* nm::IPAddress::new(family, addr, prefix): Err when the manager rejects the
\* prefix, or the address is not one of the family.
IPAddress_new(family, addr, prefix) ==
    IF prefix > MaxPrefix(family) \/ parse(addr).v # FamilyOf(family)
    THEN [ok |-> FALSE]
    ELSE [ok |-> TRUE,
          val |-> [family |-> family, address |-> addr, prefix |-> prefix]]

----------------------------------------------------------------------------
(* networkcfg.rs: the write path *)

\* set_manual's match on ipcfg.address: the family constant for the address
\* entry and the method constant given to set_method.
manual_select_v4_only(address) ==
    [inet |-> AF_INET, method |-> SETTING_IP4_CONFIG_METHOD_MANUAL]

manual_select(address) ==
    IF address.v = "V4"
    THEN [inet |-> AF_INET, method |-> SETTING_IP4_CONFIG_METHOD_MANUAL]
    ELSE [inet |-> AF_INET6, method |-> SETTING_IP6_CONFIG_METHOD_MANUAL]

\* set_manual without clear_addresses / clear_dns, the lists being appended to.
set_manual_no_clear(nm_ipcfg, ipcfg) ==
    LET sel == manual_select(ipcfg.address)
        s2 == set_method(nm_ipcfg, sel.method)
        new_addr == IPAddress_new(sel.inet, to_string(ipcfg.address), ipcfg.prefix)
    IN  IF ~new_addr.ok
        THEN [ok |-> FALSE, s |-> s2]
        ELSE LET s3 == [s2 EXCEPT !.addresses = Append(@, new_addr.val)]
                 s4 == IF ipcfg.gateway.tag = "Some"
                       THEN [s3 EXCEPT !.dns = Append(@, to_string(ipcfg.gateway.val))]
                       ELSE s3
                 s5 == IF ipcfg.dns.tag = "Some"
                       THEN [s4 EXCEPT !.dns = Append(@, to_string(ipcfg.dns.val))]
                       ELSE s4
             IN  [ok |-> TRUE, s |-> s5]

\* NetworkConfig::set_manual. The settings object is changed in place, so the
\* changes made before IPAddress::new fails stay: s is the object afterwards, ok
\* is whether Ok(()) was returned.
set_manual(nm_ipcfg, ipcfg) ==
    LET s1 == clear_dns(clear_addresses(nm_ipcfg))
        sel == manual_select(ipcfg.address)
        s2 == set_method(s1, sel.method)
        new_addr == IPAddress_new(sel.inet, to_string(ipcfg.address), ipcfg.prefix)
    IN  IF ~new_addr.ok
        THEN [ok |-> FALSE, s |-> s2]
        ELSE LET s3 == add_address(s2, new_addr.val)
                 s4 == IF ipcfg.gateway.tag = "Some"
                       THEN add_dns(s3, to_string(ipcfg.gateway.val))
                       ELSE s3
                 s5 == IF ipcfg.dns.tag = "Some"
                       THEN add_dns(s4, to_string(ipcfg.dns.val))
                       ELSE s4
             IN  [ok |-> TRUE, s |-> s5]

\* set_dhcp that leaves the DNS list and the gateway as they were.
set_dhcp_keep_dns(nm_ipcfg, version) ==
    LET s1 == clear_addresses(nm_ipcfg)
    IN  [ok |-> TRUE,
         s |-> IF version = 4
               THEN set_method(s1, SETTING_IP4_CONFIG_METHOD_AUTO)
               ELSE set_method(s1, SETTING_IP6_CONFIG_METHOD_AUTO)]

\* NetworkConfig::set_dhcp
set_dhcp(nm_ipcfg, version) ==
    LET s1 == set_gateway(clear_dns(clear_addresses(nm_ipcfg)), None)
    IN  [ok |-> TRUE,
         s |-> IF version = 4
               THEN set_method(s1, SETTING_IP4_CONFIG_METHOD_AUTO)
               ELSE set_method(s1, SETTING_IP6_CONFIG_METHOD_AUTO)]

\* connection.setting_ip4_config() / connection.setting_ip6_config()
setting_of(conn, which) == conn[which]

\* add_setting that does not attach the settings object.
add_setting_dropped(conn, s) == conn

\* connection.add_setting: the settings object takes the slot of its own type.
add_setting(conn, s) == [conn EXCEPT ![s.kind] = Some(s)]

\* NetworkConfig::handle_manual; which is the slot nm_ipcfg was taken from.
handle_manual(conn, which, ipcfg) ==
    LET nm_ipcfg == setting_of(conn, which)
    IN  IF nm_ipcfg.tag = "Some"
        THEN LET r == set_manual(nm_ipcfg.val, ipcfg)
             IN  [ok |-> r.ok, conn |-> [conn EXCEPT ![which] = Some(r.s)]]
        ELSE LET new == IF ipcfg.address.v = "V4"
                        THEN SettingIP4Config_new
                        ELSE SettingIP6Config_new
                 r == set_manual(new, ipcfg)
             IN  IF r.ok
                 THEN [ok |-> TRUE, conn |-> add_setting(conn, r.s)]
                 ELSE [ok |-> FALSE, conn |-> conn]

\* handle_dhcp that calls set_dhcp only on the settings object it creates.
handle_dhcp_new_only(conn, which, version) ==
    LET nm_ipcfg == setting_of(conn, which)
    IN  IF nm_ipcfg.tag = "Some"
        THEN [ok |-> TRUE, conn |-> conn]
        ELSE LET new == IF version = 4
                        THEN SettingIP4Config_new
                        ELSE SettingIP6Config_new
                 r == set_dhcp(new, version)
             IN  [ok |-> r.ok, conn |-> add_setting(conn, r.s)]

\* NetworkConfig::handle_dhcp
handle_dhcp(conn, which, version) ==
    LET nm_ipcfg == setting_of(conn, which)
    IN  IF nm_ipcfg.tag = "Some"
        THEN LET r == set_dhcp(nm_ipcfg.val, version)
             IN  [ok |-> r.ok, conn |-> [conn EXCEPT ![which] = Some(r.s)]]
        ELSE LET new == IF version = 4
                        THEN SettingIP4Config_new
                        ELSE SettingIP6Config_new
                 r == set_dhcp(new, version)
             IN  [ok |-> r.ok, conn |-> add_setting(conn, r.s)]

\* NetworkConfig::handle_ipv4: cfg is self.ipv4cfg
handle_ipv4(cfg, conn) ==
    IF cfg.tag = "Some"
    THEN handle_manual(conn, "ip4", cfg.val)
    ELSE handle_dhcp(conn, "ip4", 4)

\* NetworkConfig::handle_ipv6: cfg is self.ipv6cfg
handle_ipv6(cfg, conn) ==
    IF cfg.tag = "Some"
    THEN handle_manual(conn, "ip6", cfg.val)
    ELSE handle_dhcp(conn, "ip6", 6)

\* The write path for one version, as save calls it.
handle_ip(which, cfg, conn) ==
    IF which = "ip4" THEN handle_ipv4(cfg, conn) ELSE handle_ipv6(cfg, conn)

----------------------------------------------------------------------------
(* networkcfg.rs: the read path *)

Panic == [tag |-> "Panic"]

\* from_settings without the match on the method.
from_settings_any_method(settings) ==
    LET a0 == address_at0(settings)
    IN  IF a0.tag = "Some"
        THEN LET gw == settings.gateway
                 d0 == dns_at0(settings)
             IN  Some(IPConfig(parse(a0.val.address),
                               IF gw.tag = "Some" THEN Some(parse(gw.val)) ELSE None,
                               IF d0.tag = "Some" THEN Some(parse(d0.val)) ELSE None,
                               a0.val.prefix))
        ELSE None

\* IPConfig::from_settings. parse().unwrap() panics on a string that is no
\* IP address.
from_settings(settings) ==
    IF /\ settings.method.tag = "Some"
       /\ settings.method.val.str = SETTING_IP4_CONFIG_METHOD_MANUAL.str
    THEN LET a0 == address_at0(settings)
         IN  IF a0.tag = "Some"
             THEN LET addr == parse(a0.val.address)
                      prefix == a0.val.prefix
                      gw == settings.gateway
                      gateway == IF gw.tag = "Some" THEN Some(parse(gw.val)) ELSE None
                      d0 == dns_at0(settings)
                      dns == IF d0.tag = "Some" THEN Some(parse(d0.val)) ELSE None
                  IN  IF \/ addr = ParseError
                         \/ gateway = Some(ParseError)
                         \/ dns = Some(ParseError)
                      THEN Panic
                      ELSE Some(IPConfig(addr, gateway, dns, prefix))
             ELSE None
    ELSE None

\* new_future's conn.setting_ipN_config().map(from_settings).unwrap_or(None)
read_setting(conn, which) ==
    LET x == setting_of(conn, which)
    IN  IF x.tag = "Some" THEN from_settings(x.val) ELSE None

----------------------------------------------------------------------------
(* The settings another client of the manager may have left in a slot *)

ExtEntry(v, i) ==
    [family |-> IF v = "V4" THEN AF_INET ELSE AF_INET6,
     address |-> AddrTable(v)[i],
     prefix |-> IF v = "V4" THEN 24 ELSE 64]

ExtAddressLists(v) == {[i \in 1..k |-> ExtEntry(v, i)] : k \in 0..MaxExtList}
ExtDnsLists(v) == {[i \in 1..k |-> AddrTable(v)[i]] : k \in 0..MaxExtList}
ExtGateways(v) == {None} \cup {Some(t) : t \in Texts(v)}

ExtSettings(kind) ==
    {[kind |-> kind, method |-> m, addresses |-> a, dns |-> d, gateway |-> g] :
        m \in {None} \cup {Some(x) : x \in Methods},
        a \in ExtAddressLists(SlotFamily(kind)),
        d \in ExtDnsLists(SlotFamily(kind)),
        g \in ExtGateways(SlotFamily(kind))}

\* A string the manager reports that is no IP address.
Malformed == "not-an-address"

\* Settings objects that report a malformed address, gateway or DNS entry, and
\* one that reports a malformed gateway and no address.
MalformedSettings(kind) ==
    LET v == SlotFamily(kind)
        good == <<ExtEntry(v, 1)>>
        bad == <<[ExtEntry(v, 1) EXCEPT !.address = Malformed]>>
    IN  {[kind |-> kind, method |-> Some(m), addresses |-> x[1], dns |-> x[2],
          gateway |-> x[3]] :
            m \in Methods,
            x \in {<<bad, <<>>, None>>,
                   <<good, <<Malformed>>, None>>,
                   <<good, <<>>, Some(Malformed)>>,
                   <<<<>>, <<>>, Some(Malformed)>>}}

EmptyConnection == [ip4 |-> None, ip6 |-> None]

----------------------------------------------------------------------------
(* SpecApply: the write path and the read path on one settings slot *)

NotRead == [tag |-> "NotRead"]
NoOp == [op |-> "none", cfg |-> None, version |-> 0, ok |-> TRUE,
         fresh |-> FALSE, dirty |-> FALSE, prev |-> "none", same |-> FALSE]

\* The slot holds a settings object with an address, a DNS entry and a gateway.
Dirty(conn, which) ==
    /\ conn[which].tag = "Some"
    /\ conn[which].val.addresses # <<>>
    /\ conn[which].val.dns # <<>>
    /\ conn[which].val.gateway # None

RegIdle ==
    /\ map = <<>> /\ created_ifaces = <<>> /\ res_pc = "idle" /\ res_name = ""
    /\ res_absent = FALSE /\ res_ret = None /\ requests = <<>> /\ calls = <<>>
    /\ accepted = <<>>

NotBuilt == [tag |-> "NotBuilt"]

CtorIdle ==
    /\ devices = <<>> /\ disc_ret = None /\ new_arg = NotBuilt /\ enumerated = 0

LoadIdle ==
    /\ load_pc = "idle" /\ load_name = "" /\ load_ret = None

SaveIdle ==
    /\ save_pc = "idle" /\ self_cfg = None /\ work = None /\ save_log = <<>>
    /\ save_ret = None

\* The slot starts without a settings object, or with one in a state another
\* client of the manager left it in.
ApplyInit ==
    /\ slot \in Slots
    /\ \E s \in {None} \cup {Some(x) : x \in ExtSettings(slot)
                                                \cup MalformedSettings(slot)} :
          connection = [EmptyConnection EXCEPT ![slot] = s]
    /\ lastOp = NoOp
    /\ readback = NotRead
    /\ conns = <<>>
    /\ SaveIdle
    /\ RegIdle /\ CtorIdle /\ LoadIdle

\* apply with Some(cfg): handle_ipv4 / handle_ipv6 with a manual configuration.
ApplyManual ==
    /\ \E cfg \in IPConfigs(SlotFamily(slot)) :
          LET r == handle_ip(slot, Some(cfg), connection)
          IN  /\ connection' = r.conn
              /\ lastOp' = [op |-> "manual", cfg |-> Some(cfg),
                            version |-> SlotVersion(slot), ok |-> r.ok,
                            fresh |-> (connection[slot] = None),
                            dirty |-> Dirty(connection, slot),
                            prev |-> lastOp.op,
                            same |-> (lastOp.op = "manual"
                                      /\ lastOp.cfg = Some(cfg))]
    /\ readback' = NotRead
    /\ UNCHANGED <<slot, conns, saveVars, regVars, ctorVars, loadVars>>

\* apply with None: handle_ipv4 / handle_ipv6 without a configuration.
ApplyDhcp ==
    /\ LET r == handle_ip(slot, None, connection)
       IN  /\ connection' = r.conn
           /\ lastOp' = [op |-> "dhcp", cfg |-> None,
                         version |-> SlotVersion(slot), ok |-> r.ok,
                         fresh |-> (connection[slot] = None),
                         dirty |-> Dirty(connection, slot),
                         prev |-> lastOp.op,
                         same |-> (lastOp.op = "dhcp")]
    /\ readback' = NotRead
    /\ UNCHANGED <<slot, conns, saveVars, regVars, ctorVars, loadVars>>

\* read: from_settings on the slot's settings object.
ApplyRead ==
    /\ readback = NotRead
    /\ readback' = read_setting(connection, slot)
    /\ UNCHANGED <<connection, slot, lastOp, conns, saveVars, regVars, ctorVars, loadVars>>

ApplyNext == ApplyManual \/ ApplyDhcp \/ ApplyRead

SpecApply == ApplyInit /\ [][ApplyNext]_vars

----------------------------------------------------------------------------
(* SpecSave: NetworkConfig::save against the manager's connections *)

\* The identifiers of connections, and the one the saved configurations name.
Names == {"eth0", "eth1", "eth9"}
SaveNames == {"eth0"}

\* The IPConfig values the saved configurations hold: the first address of the
\* family, with or without the second as gateway and the third as dns.
SaveIPConfigs(v) ==
    {IPConfig(IpAddr(v, AddrTable(v)[1]), g, d, p) :
        g \in {None, Some(IpAddr(v, AddrTable(v)[2]))},
        d \in {None, Some(IpAddr(v, AddrTable(v)[3]))},
        p \in Prefixes(v)}

\* struct NetworkConfig
NetworkConfig(name, ipv4cfg, ipv6cfg) ==
    [name |-> name, ipv4cfg |-> ipv4cfg, ipv6cfg |-> ipv6cfg]

NetworkConfigs ==
    {NetworkConfig(n, c4, c6) :
        n \in SaveNames,
        c4 \in {None} \cup {Some(c) : c \in SaveIPConfigs("V4")},
        c6 \in {None} \cup {Some(c) : c \in SaveIPConfigs("V6")}}

\* client.connection_by_id(name): the manager's connection with that identifier.
connection_by_id(name) == conns[name]

SaveInit ==
    /\ conns = [n \in Names |-> None]
    /\ SaveIdle
    /\ connection = EmptyConnection /\ slot = "ip4" /\ lastOp = NoOp
    /\ readback = NotRead
    /\ RegIdle /\ CtorIdle /\ LoadIdle

\* A connection with the identifier appears in the manager: created by
\* MapNMManger::connection_by_name or by another client.
SaveExtCreate ==
    /\ \E n \in SaveNames :
          /\ conns[n] = None
          /\ conns' = [conns EXCEPT ![n] = Some(EmptyConnection)]
    /\ UNCHANGED <<applyVars, saveVars, regVars, ctorVars, loadVars>>

\* Another client deletes the connection.
SaveExtDelete ==
    /\ \E n \in SaveNames :
          /\ conns[n] # None
          /\ conns' = [conns EXCEPT ![n] = None]
    /\ UNCHANGED <<applyVars, saveVars, regVars, ctorVars, loadVars>>

\* save is called on a NetworkConfig.
SaveCall ==
    /\ save_pc = "idle"
    /\ \E cfg \in NetworkConfigs : self_cfg' = Some(cfg)
    /\ save_pc' = "client"
    /\ work' = None
    /\ save_log' = <<>>
    /\ save_ret' = None
    /\ UNCHANGED <<applyVars, conns, regVars, ctorVars, loadVars>>

\* Client::new_future().await? fails: save returns the error.
SaveClientFail ==
    /\ save_pc = "client"
    /\ save_pc' = "idle"
    /\ save_ret' = Some("Err")
    /\ UNCHANGED <<applyVars, conns, self_cfg, work, save_log, regVars, ctorVars, loadVars>>

\* Client::new_future() succeeds and client.connection_by_id(&self.name) is
\* matched: with Some(connection) the body runs, with None save returns Ok(()).
SaveLookup ==
    /\ save_pc = "client"
    /\ LET found == connection_by_id(self_cfg.val.name)
       IN  IF found.tag = "Some"
           THEN /\ work' = found
                /\ save_pc' = "ipv4"
                /\ save_ret' = save_ret
           ELSE /\ work' = None
                /\ save_pc' = "idle"
                /\ save_ret' = Some("Ok")
    /\ UNCHANGED <<applyVars, conns, self_cfg, save_log, regVars, ctorVars, loadVars>>

\* self.handle_ipv4(&connection)? followed at once by a commit of the connection.
SaveHandleIpv4_commits ==
    /\ save_pc = "ipv4"
    /\ LET r == handle_ipv4(self_cfg.val.ipv4cfg, work.val)
       IN  /\ work' = Some(r.conn)
           /\ save_log' = Append(save_log, "ipv4")
           /\ conns' = [conns EXCEPT ![self_cfg.val.name] = Some(r.conn)]
           /\ IF r.ok
              THEN save_pc' = "ipv6" /\ save_ret' = save_ret
              ELSE save_pc' = "idle" /\ save_ret' = Some("Err")
    /\ UNCHANGED <<applyVars, self_cfg, regVars, ctorVars, loadVars>>

\* self.handle_ipv4(&connection)?
SaveHandleIpv4 ==
    /\ save_pc = "ipv4"
    /\ LET r == handle_ipv4(self_cfg.val.ipv4cfg, work.val)
       IN  /\ work' = Some(r.conn)
           /\ save_log' = Append(save_log, "ipv4")
           /\ IF r.ok
              THEN save_pc' = "ipv6" /\ save_ret' = save_ret
              ELSE save_pc' = "idle" /\ save_ret' = Some("Err")
    /\ UNCHANGED <<applyVars, conns, self_cfg, regVars, ctorVars, loadVars>>

\* self.handle_ipv6(&connection) with its error dropped: save goes on to commit.
SaveHandleIpv6_ignores_error ==
    /\ save_pc = "ipv6"
    /\ LET r == handle_ipv6(self_cfg.val.ipv6cfg, work.val)
       IN  /\ work' = Some(r.conn)
           /\ save_log' = Append(save_log, "ipv6")
           /\ save_pc' = "commit" /\ save_ret' = save_ret
    /\ UNCHANGED <<applyVars, conns, self_cfg, regVars, ctorVars, loadVars>>

\* self.handle_ipv6(&connection)?
SaveHandleIpv6 ==
    /\ save_pc = "ipv6"
    /\ LET r == handle_ipv6(self_cfg.val.ipv6cfg, work.val)
       IN  /\ work' = Some(r.conn)
           /\ save_log' = Append(save_log, "ipv6")
           /\ IF r.ok
              THEN save_pc' = "commit" /\ save_ret' = save_ret
              ELSE save_pc' = "idle" /\ save_ret' = Some("Err")
    /\ UNCHANGED <<applyVars, conns, self_cfg, regVars, ctorVars, loadVars>>

\* connection.commit_changes_future(true).await? succeeds: the manager persists
\* the connection as the client holds it, and save returns Ok(()).
SaveCommit ==
    /\ save_pc = "commit"
    /\ conns[self_cfg.val.name] # None
    /\ conns' = [conns EXCEPT ![self_cfg.val.name] = work]
    /\ save_log' = Append(save_log, "commit")
    /\ save_pc' = "idle"
    /\ save_ret' = Some("Ok")
    /\ UNCHANGED <<applyVars, self_cfg, work, regVars, ctorVars, loadVars>>

\* connection.commit_changes_future(true).await? fails (the manager refuses, or
\* the connection is gone): save returns the error.
SaveCommitFail ==
    /\ save_pc = "commit"
    /\ save_log' = Append(save_log, "commit")
    /\ save_pc' = "idle"
    /\ save_ret' = Some("Err")
    /\ UNCHANGED <<applyVars, conns, self_cfg, work, regVars, ctorVars, loadVars>>

SaveNext ==
    \/ SaveExtCreate
    \/ SaveExtDelete
    \/ SaveCall
    \/ SaveClientFail
    \/ SaveLookup
    \/ SaveHandleIpv4
    \/ SaveHandleIpv6
    \/ SaveCommit
    \/ SaveCommitFail

SpecSave == SaveInit /\ [][SaveNext]_vars

----------------------------------------------------------------------------
(* SpecResolve: MapNMManger::connection_by_name against the manager *)

\* The maps MapNMManger::new_future is given.
ExplicitMaps ==
    {<<>>,
     "eth0" :> "enp1s0",
     ("eth0" :> "enp1s0") @@ ("eth1" :> "enp3s0")}

\* MapNMManger::new_future(Some(val)): the fields of the new instance.
new_future(val) == [map |-> val, created_ifaces |-> <<>>]

\* self.map.contains_key(name), without looking at the map.
contains_key_always(m, name) == TRUE

\* self.map.contains_key(name)
contains_key(m, name) == name \in DOMAIN m

\* self.map.get(name)
map_get(m, name) == IF name \in DOMAIN m THEN Some(m[name]) ELSE None

\* MapNMManger::is_created
is_created(name) == InSeq(name, created_ifaces)

\* MapNMManger::create_connection: the SettingConnection of the new connection.
create_connection(conn_name, device_name) ==
    [type |-> "802-3-ethernet", id |-> conn_name, autoconnect |-> TRUE,
     interface_name |-> device_name]

\* An event of the window: a completed call, or an external deletion.
CallEvent(name, ok, nreq, absent) ==
    [kind |-> "call", name |-> name, ok |-> ok, nreq |-> nreq,
     absent |-> absent, id |-> IF ok THEN name ELSE "",
     bit |-> IF calls = <<>> THEN 0 ELSE 1 - calls[Len(calls)].bit]

DeleteEvent(name) ==
    [kind |-> "delete", name |-> name, ok |-> TRUE, nreq |-> 0,
     absent |-> FALSE, id |-> "",
     bit |-> IF calls = <<>> THEN 0 ELSE 1 - calls[Len(calls)].bit]

Push(e) == IF Len(calls) < 2 THEN Append(calls, e) ELSE <<calls[2], e>>

ResolveInit ==
    /\ \E m \in ExplicitMaps :
          /\ map = new_future(m).map
          /\ created_ifaces = new_future(m).created_ifaces
    /\ conns = [n \in Names |-> None]
    /\ res_pc = "idle" /\ res_name = "" /\ res_absent = FALSE /\ res_ret = None
    /\ requests = <<>> /\ calls = <<>> /\ accepted = <<>>
    /\ connection = EmptyConnection /\ slot = "ip4" /\ lastOp = NoOp
    /\ readback = NotRead
    /\ SaveIdle /\ CtorIdle /\ LoadIdle

\* The call returns: the value and the event of the window.
Return(name, absent, ok, nreq) ==
    /\ res_pc' = "idle"
    /\ res_ret' = Some([ok |-> ok, id |-> IF ok THEN name ELSE ""])
    /\ calls' = Push(CallEvent(name, ok, nreq, absent))

\* Another client creates a connection with the identifier.
ResExtCreate ==
    /\ \E n \in Names :
          /\ conns[n] = None
          /\ conns' = [conns EXCEPT ![n] = Some(EmptyConnection)]
    /\ UNCHANGED <<applyVars, saveVars, regVars, ctorVars, loadVars>>

\* Another client deletes the connection.
ResExtDelete ==
    /\ \E n \in Names :
          /\ conns[n] # None
          /\ conns' = [conns EXCEPT ![n] = None]
          /\ calls' = Push(DeleteEvent(n))
    /\ UNCHANGED <<applyVars, saveVars, ctorVars, loadVars, accepted, map, created_ifaces, res_pc, res_name,
                   res_absent, res_ret, requests>>

\* connection_by_name(name) is called: match self.map.contains_key(name); the
\* false arm bails.
ResCall ==
    /\ res_pc = "idle"
    /\ Len(created_ifaces) < MaxCreated
    /\ \E name \in Names :
          /\ res_name' = name
          /\ res_absent' = FALSE
          /\ requests' = <<>>
          /\ IF contains_key(map, name)
             THEN res_pc' = "client" /\ res_ret' = None /\ calls' = calls
             ELSE Return(name, FALSE, FALSE, 0)
    /\ UNCHANGED <<applyVars, saveVars, ctorVars, loadVars, accepted, conns, map, created_ifaces>>

\* Client::new_future().await? fails.
ResClientFail ==
    /\ res_pc = "client"
    /\ Return(res_name, res_absent, FALSE, 0)
    /\ UNCHANGED <<applyVars, saveVars, ctorVars, loadVars, accepted, conns, map, created_ifaces, res_name,
                   res_absent, requests>>

\* The lookup taken as a miss whatever the manager holds.
ResLookup_always_create ==
    /\ res_pc = "client"
    /\ res_absent' = (connection_by_id(res_name) = None)
    /\ res_pc' = "create"
    /\ UNCHANGED <<applyVars, saveVars, ctorVars, loadVars, accepted, conns, map, created_ifaces, res_name,
                   res_ret, requests, calls>>

\* The lookup with a name of created_ifaces taken as existing: the creation is
\* skipped and the connection fetched by the second lookup.
ResLookup_trusts_created ==
    /\ res_pc = "client"
    /\ res_absent' = (connection_by_id(res_name) = None)
    /\ UNCHANGED <<res_name>>
    /\ IF connection_by_id(res_name) # None
       THEN Return(res_name, FALSE, TRUE, 0)
       ELSE /\ res_pc' = IF is_created(res_name) THEN "requery" ELSE "create"
            /\ res_ret' = res_ret /\ calls' = calls
    /\ UNCHANGED <<applyVars, saveVars, ctorVars, loadVars, accepted, conns, map,
                   created_ifaces, requests>>

\* Client::new_future() succeeds; match client.connection_by_id(name): Some is
\* returned, None goes on to create the connection.
ResLookup ==
    /\ res_pc = "client"
    /\ res_absent' = (connection_by_id(res_name) = None)
    /\ UNCHANGED <<res_name>>
    /\ IF connection_by_id(res_name) # None
       THEN Return(res_name, FALSE, TRUE, 0)
       ELSE res_pc' = "create" /\ res_ret' = res_ret /\ calls' = calls
    /\ UNCHANGED <<applyVars, saveVars, ctorVars, loadVars, accepted, conns, map, created_ifaces, requests>>

\* The accepted creation without the push to created_ifaces.
ResCreate_no_push ==
    /\ res_pc = "create"
    /\ LET new_conn == create_connection(res_name, map_get(map, res_name))
       IN  /\ requests' = Append(requests, [conn |-> new_conn, accepted |-> TRUE])
           /\ conns' = [conns EXCEPT ![new_conn.id] = Some(EmptyConnection)]
    /\ accepted' = Append(accepted, res_name)
    /\ res_pc' = "requery"
    /\ UNCHANGED <<applyVars, saveVars, ctorVars, loadVars, map, created_ifaces,
                   res_name, res_absent, res_ret, calls>>

\* client.add_connection_future(&new_conn, true).await? succeeds: the manager
\* holds the new connection; the name is pushed to created_ifaces.
ResCreate ==
    /\ res_pc = "create"
    /\ LET new_conn == create_connection(res_name, map_get(map, res_name))
       IN  /\ requests' = Append(requests, [conn |-> new_conn, accepted |-> TRUE])
           /\ conns' = [conns EXCEPT ![new_conn.id] = Some(EmptyConnection)]
    /\ created_ifaces' = Append(created_ifaces, res_name)
    /\ accepted' = Append(accepted, res_name)
    /\ res_pc' = "requery"
    /\ UNCHANGED <<applyVars, saveVars, ctorVars, loadVars, map, res_name, res_absent, res_ret, calls>>

\* The rejected creation with the name pushed all the same.
ResCreateFail_pushes ==
    /\ res_pc = "create"
    /\ LET new_conn == create_connection(res_name, map_get(map, res_name))
       IN  requests' = Append(requests, [conn |-> new_conn, accepted |-> FALSE])
    /\ created_ifaces' = Append(created_ifaces, res_name)
    /\ Return(res_name, res_absent, FALSE, Len(requests) + 1)
    /\ UNCHANGED <<applyVars, saveVars, ctorVars, loadVars, accepted, conns, map,
                   res_name, res_absent>>

\* client.add_connection_future(&new_conn, true).await? fails.
ResCreateFail ==
    /\ res_pc = "create"
    /\ LET new_conn == create_connection(res_name, map_get(map, res_name))
       IN  requests' = Append(requests, [conn |-> new_conn, accepted |-> FALSE])
    /\ Return(res_name, res_absent, FALSE, Len(requests) + 1)
    /\ UNCHANGED <<applyVars, saveVars, ctorVars, loadVars, accepted, conns, map, created_ifaces, res_name,
                   res_absent>>

\* The second client.connection_by_id(name): Some is returned, None bails.
ResRequery ==
    /\ res_pc = "requery"
    /\ Return(res_name, res_absent, connection_by_id(res_name) # None,
              Len(requests))
    /\ UNCHANGED <<applyVars, saveVars, ctorVars, loadVars, accepted, conns, map, created_ifaces, res_name,
                   res_absent, requests>>

ResolveNext ==
    \/ ResExtCreate
    \/ ResExtDelete
    \/ ResCall
    \/ ResClientFail
    \/ ResLookup
    \/ ResCreate
    \/ ResCreateFail
    \/ ResRequery

SpecResolve == ResolveInit /\ [][ResolveNext]_vars

----------------------------------------------------------------------------
(* Claims on the write path and the read path (SpecApply) *)

\* The settings object in the observed slot.
Cur == connection[slot].val

AllPresent(cfg) == cfg.gateway.tag = "Some" /\ cfg.dns.tag = "Some"

\* C1: a configuration with an address, a prefix, a gateway and a dns that is
\* applied to a fresh settings object of its version reads back as Some of a
\* configuration with the same address, prefix, gateway and dns.
C1_RoundTrip ==
    (/\ lastOp.op = "manual" /\ lastOp.ok /\ lastOp.fresh
     /\ AllPresent(lastOp.cfg.val)
     /\ readback # NotRead)
    => readback = Some(lastOp.cfg.val)

\* C2: after a successful apply with Some(desired) the address list is exactly
\* desired.address/desired.prefix, the DNS list is exactly desired.dns when
\* present and empty when absent, and the gateway field is desired.gateway when
\* present and unset when absent.
C2_WritePostcondition ==
    (lastOp.op = "manual" /\ lastOp.ok)
    => LET desired == lastOp.cfg.val
       IN  /\ connection[slot].tag = "Some"
           /\ Len(Cur.addresses) = 1
           /\ Cur.addresses[1].address = to_string(desired.address)
           /\ Cur.addresses[1].prefix = desired.prefix
           /\ Cur.dns = IF desired.dns.tag = "Some"
                        THEN <<to_string(desired.dns.val)>>
                        ELSE <<>>
           /\ Cur.gateway = IF desired.gateway.tag = "Some"
                            THEN Some(to_string(desired.gateway.val))
                            ELSE None

AutoOf(version) ==
    IF version = 4
    THEN SETTING_IP4_CONFIG_METHOD_AUTO
    ELSE SETTING_IP6_CONFIG_METHOD_AUTO

\* C3: after apply with None, from any prior state of the slot, the settings
\* object has no address, no DNS entry, no gateway, and the auto method of the
\* requested version.
C3_DhcpReset ==
    lastOp.op = "dhcp"
    => /\ lastOp.ok
       /\ connection[slot].tag = "Some"
       /\ Cur.addresses = <<>>
       /\ Cur.dns = <<>>
       /\ Cur.gateway = None
       /\ Cur.method = Some(AutoOf(lastOp.version))

\* A DHCP reset of a settings object that held an address, DNS and a gateway.
C3_Witness ==
    /\ lastOp.op = "dhcp" /\ lastOp.dirty /\ lastOp.version = 6
    /\ Cur.addresses = <<>>

\* C4: when the last apply on the slot was apply(None), a read of the slot
\* gives None, whatever was applied before.
C4_ManualThenDhcp ==
    (lastOp.op = "dhcp" /\ readback # NotRead) => readback = None

\* A read after a manual apply followed by apply(None).
C4_Witness ==
    /\ lastOp.op = "dhcp" /\ lastOp.prev = "manual" /\ ~lastOp.fresh
    /\ readback = None

\* C5: applying the Some(cfg) that was applied last leaves the connection's
\* settings as they were, with the same outcome, and one address entry.
C5_Idempotent ==
    [][(/\ lastOp.op = "manual"
        /\ lastOp'.op = "manual"
        /\ lastOp'.cfg = lastOp.cfg)
       => /\ connection' = connection
          /\ lastOp'.ok = lastOp.ok
          /\ (lastOp'.ok => Len(connection'[slot].val.addresses) = 1)]_vars

\* The same configuration, with gateway and dns, applied twice in succession.
C5_Witness ==
    /\ lastOp.op = "manual" /\ lastOp.same /\ lastOp.ok
    /\ AllPresent(lastOp.cfg.val)
    /\ Len(Cur.addresses) = 1

ManualOf(v) ==
    IF v = "V4"
    THEN SETTING_IP4_CONFIG_METHOD_MANUAL
    ELSE SETTING_IP6_CONFIG_METHOD_MANUAL

FamilyConst(v) == IF v = "V4" THEN AF_INET ELSE AF_INET6

\* C10: apply with Some(cfg) sets the manual method constant of the family of
\* cfg.address and builds the address entry with that family's constant; apply
\* with None sets the auto constant of the requested version.
C10_FamilyConsistency ==
    /\ (lastOp.op = "manual" /\ connection[slot].tag = "Some")
       => /\ Cur.method = Some(ManualOf(lastOp.cfg.val.address.v))
          /\ \A i \in 1..Len(Cur.addresses) :
                Cur.addresses[i].family = FamilyConst(lastOp.cfg.val.address.v)
          /\ lastOp.ok => Len(Cur.addresses) = 1
    /\ (lastOp.op = "manual" /\ parse(to_string(lastOp.cfg.val.address)).v = "V6"
        /\ lastOp.cfg.val.prefix <= MaxPrefix(AF_INET6))
       => lastOp.ok
    /\ lastOp.op = "dhcp" => Cur.method = Some(AutoOf(lastOp.version))

\* A v6 configuration applied: AF_INET6 and the v6 manual constant.
C10_Witness ==
    /\ lastOp.op = "manual" /\ lastOp.ok
    /\ lastOp.cfg.val.address.v = "V6"
    /\ Cur.addresses[1].family = AF_INET6
    /\ Cur.method = Some(SETTING_IP6_CONFIG_METHOD_MANUAL)

\* The method of the settings object is the manual constant of its own version.
IsManual(s) ==
    /\ s.method.tag = "Some"
    /\ s.method.val.str = ManualOf(SlotFamily(s.kind)).str

\* The strings from_settings parses are IP addresses.
WellFormed(s) ==
    /\ s.addresses # <<>> => parse(s.addresses[1].address) # ParseError
    /\ s.gateway.tag = "Some" => parse(s.gateway.val) # ParseError
    /\ s.dns # <<>> => parse(s.dns[1]) # ParseError

\* C11: a read gives None unless the method of the settings object is the
\* manual constant of its version; with that method and no address entry it
\* gives None; otherwise (the strings being IP addresses) it gives the first
\* address entry with its prefix, the gateway exactly when the settings object
\* has one, and the first DNS entry exactly when the DNS list has one.
C11_ReadGating ==
    readback # NotRead
    => IF connection[slot] = None
       THEN readback = None
       ELSE /\ ~IsManual(Cur) => readback = None
            /\ (IsManual(Cur) /\ Cur.addresses = <<>>) => readback = None
            /\ (IsManual(Cur) /\ Cur.addresses # <<>> /\ WellFormed(Cur))
               => /\ readback.tag = "Some"
                  /\ to_string(readback.val.address) = Cur.addresses[1].address
                  /\ readback.val.prefix = Cur.addresses[1].prefix
                  /\ (readback.val.gateway.tag = "Some") = (Cur.gateway.tag = "Some")
                  /\ Cur.gateway.tag = "Some"
                     => to_string(readback.val.gateway.val) = Cur.gateway.val
                  /\ (readback.val.dns.tag = "Some") = (Cur.dns # <<>>)
                  /\ Cur.dns # <<>>
                     => to_string(readback.val.dns.val) = Cur.dns[1]

\* A v6 settings object left with the manual method, an address, a gateway and
\* DNS entries, read back as Some.
C11_Witness ==
    /\ slot = "ip6" /\ lastOp.op = "none"
    /\ connection[slot] # None
    /\ Cur.method = Some(SETTING_IP6_CONFIG_METHOD_MANUAL)
    /\ Cur.gateway # None /\ Len(Cur.dns) = 2
    /\ readback.tag = "Some"
    /\ readback.val.gateway # None

\* C14: a read of a settings object with the manual method and an address
\* entry whose address, gateway or first DNS string is no IP address ends with
\* an error value returned to the caller.
C14_MalformedIsError ==
    (/\ readback # NotRead
     /\ connection[slot] # None
     /\ IsManual(Cur) /\ Cur.addresses # <<>>
     /\ ~WellFormed(Cur))
    => readback = [tag |-> "Err"]

----------------------------------------------------------------------------
(* Claims on save (SpecSave) *)

SaveOrder == <<"ipv4", "ipv6", "commit">>

IsPrefix(s, q) == Len(s) <= Len(q) /\ \A i \in 1..Len(s) : s[i] = q[i]

\* C6: a save that returns Ok has applied the v4 and the v6 settings to the
\* connection named config.name and committed them (creating the connection
\* when the manager holds none): it never returns success having applied and
\* committed nothing.
C6_SaveAppliesAndCommits ==
    (save_pc = "idle" /\ save_ret = Some("Ok")) => save_log = SaveOrder

\* The settings object of a slot is what apply makes of cfg: the manual method
\* and cfg's address, or the auto method.
Reflects(conn, which, cfg) ==
    /\ conn[which].tag = "Some"
    /\ IF cfg.tag = "Some"
       THEN /\ conn[which].val.method = Some(ManualOf(SlotFamily(which)))
            /\ Len(conn[which].val.addresses) = 1
            /\ conn[which].val.addresses[1].address = to_string(cfg.val.address)
       ELSE /\ conn[which].val.method = Some(AutoOf(SlotVersion(which)))
            /\ conn[which].val.addresses = <<>>

\* C7: the steps of one save are the v4 apply, the v6 apply and the commit
\* request, in that order and each at most once; the apply steps leave the
\* manager's connections as they are; a save that has applied and returns Ok
\* has issued the commit; and what a commit persists carries the v4 and the v6
\* settings of that save.
C7_CommitOrdering ==
    [][/\ IsPrefix(save_log', SaveOrder)
       /\ (save_log' # save_log /\ save_log' # <<>> /\ save_log' # SaveOrder)
          => conns' = conns
       /\ (save_pc # "idle" /\ save_pc' = "idle" /\ save_ret' = Some("Ok")
           /\ save_log' # <<>>)
          => save_log' = SaveOrder
       /\ (save_log' # save_log /\ conns' # conns)
          => /\ save_log' = SaveOrder
             /\ conns'[self_cfg.val.name] = work
             /\ Reflects(work.val, "ip4", self_cfg.val.ipv4cfg)
             /\ Reflects(work.val, "ip6", self_cfg.val.ipv6cfg)]_vars

\* A save with a manual v4 and a manual v6 configuration has committed both.
C7_Witness ==
    /\ save_pc = "idle" /\ save_ret = Some("Ok") /\ save_log = SaveOrder
    /\ self_cfg.val.ipv4cfg # None /\ self_cfg.val.ipv6cfg # None
    /\ conns[self_cfg.val.name] = work
    /\ Reflects(work.val, "ip6", self_cfg.val.ipv6cfg)

----------------------------------------------------------------------------
(* Claims on connection_by_name (SpecResolve) *)

\* C8: of two successive calls for one mapped name that both return a
\* connection, with no external deletion in between, the first of which found
\* no connection with that identifier, exactly one creation request is issued
\* in total and the second returns the identifier the first returned.
C8_CreatesOnce ==
    (/\ Len(calls) = 2
     /\ calls[1].kind = "call" /\ calls[2].kind = "call"
     /\ calls[1].name = calls[2].name
     /\ calls[1].name \in DOMAIN map
     /\ calls[1].absent
     /\ calls[1].ok /\ calls[2].ok)
    => /\ calls[1].nreq + calls[2].nreq = 1
       /\ calls[1].nreq = 1
       /\ calls[2].id = calls[1].id
       /\ is_created(calls[1].name)

\* Two successive calls for eth0, the first creating the connection.
C8_Witness ==
    /\ Len(calls) = 2
    /\ calls[1].kind = "call" /\ calls[2].kind = "call"
    /\ calls[1].name = "eth0" /\ calls[2].name = "eth0"
    /\ calls[1].absent /\ calls[1].ok /\ calls[2].ok
    /\ calls[2].nreq = 0

\* C9: a call for a name that is no key of the map returns an error in the
\* step it is made, issues no creation request, and leaves created_ifaces and
\* the manager's connections as they are.
C9_UnmappedLookup ==
    [][(/\ calls' # calls
        /\ calls'[Len(calls')].kind = "call"
        /\ calls'[Len(calls')].name \notin DOMAIN map)
       => /\ res_pc = "idle"
          /\ ~calls'[Len(calls')].ok
          /\ res_ret' = Some([ok |-> FALSE, id |-> ""])
          /\ calls'[Len(calls')].nreq = 0
          /\ requests' = <<>>
          /\ created_ifaces' = created_ifaces
          /\ conns' = conns
          /\ map' = map]_vars

\* A failed call for eth9, not a key of the map, while the manager holds a
\* connection with that identifier.
C9_Witness ==
    /\ calls # <<>>
    /\ calls[Len(calls)].kind = "call"
    /\ calls[Len(calls)].name = "eth9"
    /\ "eth9" \notin DOMAIN map
    /\ ~calls[Len(calls)].ok
    /\ conns["eth9"] # None
    /\ res_ret = Some([ok |-> FALSE, id |-> ""])

----------------------------------------------------------------------------
(* Further claims on save (SpecSave) *)

\* The connection carries a settings object of the slot's own type.
Carries(conn, which) ==
    conn[which].tag = "Some" /\ conn[which].val.kind = which

----------------------------------------------------------------------------
(* Device discovery: get_ether_devices, get_deafult_mapping (SpecDiscover) *)

\* A device of the manager: what its Display yields, and its device_type().
Device(display, device_type) == [display |-> display, device_type |-> device_type]

DevicePool ==
    {Device("enp3s0", "Ethernet"), Device("enp1s0", "Ethernet"),
     Device("enp10s0", "Ethernet"), Device("wlan0", "Wifi"),
     Device("docker0", "Bridge")}

\* The bytes of the strings, which the ordering of String compares.
Bytes ==
    ("enp1s0" :> <<101, 110, 112, 49, 115, 48>>)
    @@ ("enp3s0" :> <<101, 110, 112, 51, 115, 48>>)
    @@ ("enp10s0" :> <<101, 110, 112, 49, 48, 115, 48>>)
    @@ ("wlan0" :> <<119, 108, 97, 110, 48>>)
    @@ ("docker0" :> <<100, 111, 99, 107, 101, 114, 48>>)

\* Ord for byte strings: the first differing byte decides, a proper prefix is
\* less.
RECURSIVE LexLess(_, _)
LexLess(a, b) ==
    IF a = <<>> THEN b # <<>>
    ELSE IF b = <<>> THEN FALSE
    ELSE IF a[1] = b[1] THEN LexLess(Tail(a), Tail(b))
    ELSE a[1] < b[1]

RECURSIVE insert_ordered(_, _)
insert_ordered(x, s) ==
    IF s = <<>> THEN <<x>>
    ELSE IF LexLess(Bytes[x], Bytes[s[1]]) THEN <<x>> \o s
    ELSE <<s[1]>> \o insert_ordered(x, Tail(s))

\* devices.sort()
RECURSIVE sort(_)
sort(s) == IF s = <<>> THEN <<>> ELSE insert_ordered(s[1], sort(Tail(s)))

\* The loop of get_ether_devices: the Ethernet devices' strings, in the order
\* of the enumeration.
RECURSIVE push_ethernet(_)
push_ethernet(devs) ==
    IF devs = <<>> THEN <<>>
    ELSE IF devs[1].device_type = "Ethernet"
         THEN <<devs[1].display>> \o push_ethernet(Tail(devs))
         ELSE push_ethernet(Tail(devs))

\* get_ether_devices without the sort.
get_ether_devices_unsorted(devs) == push_ethernet(devs)

\* MapNMManger::get_ether_devices, the client given.
get_ether_devices(devs) == sort(push_ethernet(devs))

\* format!("eth{}", idx)
EthNames == <<"eth0", "eth1", "eth2", "eth3", "eth4", "eth5">>
format_eth(idx) == EthNames[idx + 1]

\* BTreeMap::insert
insert(m, k, v) == (k :> v) @@ m

RECURSIVE insert_from(_, _, _)
insert_from(m, ds, idx) ==
    IF idx >= Len(ds) THEN m
    ELSE insert_from(insert(m, format_eth(idx), ds[idx + 1]), ds, idx + 1)

\* MapNMManger::get_deafult_mapping, the client given.
get_deafult_mapping(devs) == insert_from(<<>>, get_ether_devices(devs), 0)

RECURSIVE SeqsUpTo(_, _)
SeqsUpTo(S, n) ==
    IF n = 0 THEN {<<>>}
    ELSE LET shorter == SeqsUpTo(S, n - 1)
         IN  shorter \cup {Append(s, x) : s \in shorter, x \in S}

\* What client.devices() may yield: devices of the pool in any order; two
\* devices may display the same string.
Enumerations == SeqsUpTo(DevicePool, NumDevices)

DiscoverInit ==
    /\ devices \in Enumerations
    /\ disc_ret = None /\ new_arg = NotBuilt /\ enumerated = 0
    /\ conns = [n \in Names |-> None]
    /\ connection = EmptyConnection /\ slot = "ip4" /\ lastOp = NoOp
    /\ readback = NotRead
    /\ SaveIdle /\ RegIdle /\ LoadIdle

\* get_deafult_mapping() with Client::new_future() succeeding.
Discover ==
    /\ disc_ret = None
    /\ enumerated' = enumerated + 1
    /\ disc_ret' = Some([ok |-> TRUE, map |-> get_deafult_mapping(devices)])
    /\ UNCHANGED <<applyVars, saveVars, regVars, loadVars, conns, devices, new_arg>>

\* get_deafult_mapping() with Client::new_future().await? failing.
DiscoverClientFail ==
    /\ disc_ret = None
    /\ disc_ret' = Some([ok |-> FALSE, map |-> <<>>])
    /\ UNCHANGED <<applyVars, saveVars, regVars, loadVars, conns, devices, new_arg,
                   enumerated>>

DiscoverNext == Discover \/ DiscoverClientFail

SpecDiscover == DiscoverInit /\ [][DiscoverNext]_vars

\* The strings of the pool in lexicographic order, written out.
LexOrder == <<"docker0", "enp10s0", "enp1s0", "enp3s0", "wlan0">>
LexRank(x) == CHOOSE i \in 1..Len(LexOrder) : LexOrder[i] = x

EthernetAt == {i \in 1..Len(devices) : devices[i].device_type = "Ethernet"}

\* C13: the default mapping has the keys eth0..eth(n-1) for the n Ethernet
\* devices of the enumeration and no others, and eth<i> maps to the i-th of
\* their identifiers in lexicographic order, whatever the order of the
\* enumeration; devices enp3s0 and enp1s0 give eth0 -> enp1s0, eth1 -> enp3s0.
C13_DiscoveryDeterminism ==
    (disc_ret.tag = "Some" /\ disc_ret.val.ok) =>
        LET m == disc_ret.val.map
            n == Cardinality(EthernetAt)
            Below(x) == Cardinality({i \in EthernetAt :
                            LexRank(devices[i].display) < LexRank(x)})
            UpTo(x) == Cardinality({i \in EthernetAt :
                            LexRank(devices[i].display) <= LexRank(x)})
        IN  /\ DOMAIN m = {format_eth(i) : i \in 0..(n - 1)}
            /\ \A i \in 0..(n - 1) :
                  /\ \E j \in EthernetAt : devices[j].display = m[format_eth(i)]
                  /\ Below(m[format_eth(i)]) <= i
                  /\ i < UpTo(m[format_eth(i)])
            /\ {devices[i] : i \in 1..Len(devices)}
                  = {Device("enp3s0", "Ethernet"), Device("enp1s0", "Ethernet")}
               /\ Len(devices) = 2
               => m = ("eth0" :> "enp1s0") @@ ("eth1" :> "enp3s0")

\* Three devices enumerated out of order, one of them not Ethernet.
C13_Witness ==
    /\ devices = <<Device("enp3s0", "Ethernet"), Device("wlan0", "Wifi"),
                   Device("enp10s0", "Ethernet")>>
    /\ disc_ret = Some([ok |-> TRUE,
                        map |-> ("eth0" :> "enp10s0") @@ ("eth1" :> "enp3s0")])

----------------------------------------------------------------------------
(* Further claims on connection_by_name (SpecResolve) *)

LastCall == calls[Len(calls)]

\* C15: when the lookup found nothing, the manager accepted the creation request
\* and the re-query finds nothing, the call returns an error after exactly one
\* creation request, with the name already in created_ifaces and without
\* another request to the manager.
C15_CreationNotRetrievable ==
    [][(res_pc = "requery" /\ conns[res_name] = None /\ res_pc' = "idle")
       => /\ res_absent
          /\ res_ret' = Some([ok |-> FALSE, id |-> ""])
          /\ Len(requests) = 1 /\ requests[1].accepted
          /\ requests[1].conn.id = res_name
          /\ requests' = requests /\ conns' = conns
          /\ InSeq(res_name, created_ifaces)
          /\ created_ifaces' = created_ifaces
          /\ LastCall' = CallEvent(res_name, FALSE, 1, TRUE)]_vars

\* A call that failed on the re-query after its accepted creation request.
C15_Witness ==
    /\ res_pc = "idle" /\ res_ret = Some([ok |-> FALSE, id |-> ""])
    /\ calls # <<>> /\ LastCall.kind = "call" /\ LastCall.absent
    /\ LastCall.nreq = 1 /\ ~LastCall.ok
    /\ Len(requests) = 1 /\ requests[1].accepted
    /\ conns[res_name] = None
    /\ InSeq(res_name, created_ifaces)


Elems(s) == {s[i] : i \in 1..Len(s)}

\* C16 as stated: created_ifaces holds no name more than once, every name in it
\* is a key of map, and its names are exactly those of the accepted creation
\* requests.
C16_CreatedIsSet ==
    /\ \A i, j \in 1..Len(created_ifaces) :
          created_ifaces[i] = created_ifaces[j] => i = j
    /\ \A n \in Elems(created_ifaces) : contains_key(map, n)
    /\ Elems(created_ifaces) = Elems(accepted)

\* C16 amended: created_ifaces holds one entry per accepted creation request,
\* in the order of the requests (so a name appears once for every time it was
\* created), every name in it is a key of map, and a rejected request or a
\* re-query miss adds or removes nothing.
C16_CreatedPerAcceptedRequest ==
    /\ created_ifaces = accepted
    /\ \A n \in Elems(created_ifaces) : contains_key(map, n)

\* The same name created, deleted by another client, and created again.
C16_Witness ==
    /\ created_ifaces = <<"eth0", "eth0">>
    /\ accepted = <<"eth0", "eth0">>
    /\ res_pc = "idle"


\* C17: a call for a mapped name goes to the manager's lookup first, with no
\* request issued yet; whether the name is in created_ifaces or not, the call
\* goes on to the creation exactly when that lookup finds nothing, and returns
\* the connection without any creation request when it finds one; the call
\* issues its one creation request only after a lookup that found nothing.
C17_LookupAuthoritative ==
    [][/\ (res_pc = "idle" /\ res_pc' # "idle")
          => /\ contains_key(map, res_name') /\ res_pc' = "client"
             /\ requests' = <<>>
       /\ (res_pc = "client" /\ res_pc' \notin {"client", "idle"})
          => /\ res_pc' = "create" /\ conns[res_name] = None
             /\ requests' = <<>> /\ conns' = conns
       /\ (res_pc = "client" /\ res_pc' = "idle")
          => /\ requests' = <<>> /\ conns' = conns
             /\ res_ret'.val.ok => conns[res_name] # None
             /\ conns[res_name] = None => ~res_ret'.val.ok
       /\ (res_pc = "create" /\ res_pc' # "create")
          => /\ Len(requests) = 0 /\ Len(requests') = 1
             /\ requests'[1].conn.id = res_name
       /\ res_pc = "requery" => Len(requests) = 1
       /\ requests' # requests => (res_pc = "create" \/ res_pc = "idle")]_vars

\* A name of created_ifaces whose connection another client deleted is being
\* created again.
C17_Witness ==
    /\ res_pc = "requery" /\ res_name = "eth0"
    /\ created_ifaces = <<"eth0", "eth0">>
    /\ Len(requests) = 1 /\ requests[1].accepted
    /\ \E i \in 1..Len(calls) : calls[i].kind = "delete" /\ calls[i].name = "eth0"

----------------------------------------------------------------------------
(* Construction: MapNMManger::new_future, then connection_by_name (SpecNew) *)

\* The device enumerations the constructor is run against.
NewSnapshots ==
    {<<>>,
     <<Device("enp3s0", "Ethernet"), Device("wlan0", "Wifi"),
       Device("enp1s0", "Ethernet")>>}

NewInit ==
    /\ devices \in NewSnapshots
    /\ disc_ret = None /\ new_arg = NotBuilt /\ enumerated = 0
    /\ conns = [n \in Names |-> None]
    /\ connection = EmptyConnection /\ slot = "ip4" /\ lastOp = NoOp
    /\ readback = NotRead
    /\ SaveIdle /\ RegIdle /\ LoadIdle

\* new_future returned Ok: the instance exists.
Built ==
    /\ new_arg # NotBuilt
    /\ new_arg = None => disc_ret.val.ok

\* new_future(Some(val)) running the discovery instead of cloning val.
NewExplicit_discovers ==
    /\ new_arg = NotBuilt
    /\ \E val \in ExplicitMaps :
          /\ new_arg' = Some(val)
          /\ map' = get_deafult_mapping(devices)
          /\ created_ifaces' = <<>>
    /\ enumerated' = enumerated + 1
    /\ UNCHANGED <<applyVars, saveVars, loadVars, conns, res_pc, res_name,
                   res_absent, res_ret, requests, calls, accepted, devices,
                   disc_ret>>

\* new_future(Some(val)): the Some arm.
NewExplicit ==
    /\ new_arg = NotBuilt
    /\ \E val \in ExplicitMaps :
          /\ new_arg' = Some(val)
          /\ map' = new_future(val).map
          /\ created_ifaces' = new_future(val).created_ifaces
    /\ UNCHANGED <<applyVars, saveVars, loadVars, conns, res_pc, res_name,
                   res_absent, res_ret, requests, calls, accepted, devices,
                   disc_ret, enumerated>>

\* new_future(None): the other arm, get_deafult_mapping().await? succeeding.
NewDiscover ==
    /\ new_arg = NotBuilt
    /\ new_arg' = None
    /\ enumerated' = enumerated + 1
    /\ disc_ret' = Some([ok |-> TRUE, map |-> get_deafult_mapping(devices)])
    /\ map' = get_deafult_mapping(devices)
    /\ created_ifaces' = <<>>
    /\ UNCHANGED <<applyVars, saveVars, loadVars, conns, res_pc, res_name,
                   res_absent, res_ret, requests, calls, accepted, devices>>

\* new_future(None) with get_deafult_mapping().await? failing: no instance.
NewDiscoverFail ==
    /\ new_arg = NotBuilt
    /\ new_arg' = None
    /\ disc_ret' = Some([ok |-> FALSE, map |-> <<>>])
    /\ UNCHANGED <<applyVars, saveVars, loadVars, regVars, conns, devices,
                   enumerated>>

NewNext ==
    \/ NewExplicit
    \/ NewDiscover
    \/ NewDiscoverFail
    \/ Built /\ ResExtCreate
    \/ Built /\ ResExtDelete
    \/ Built /\ ResCall
    \/ Built /\ ResClientFail
    \/ Built /\ ResLookup
    \/ Built /\ ResCreate
    \/ Built /\ ResCreateFail
    \/ Built /\ ResRequery

SpecNew == NewInit /\ [][NewNext]_vars

\* C18: an instance built from an explicit mapping holds exactly that mapping
\* and no device enumeration has taken place; one built without holds the
\* mapping discovery returned, after one enumeration; every step taken once the
\* instance exists, whatever its outcome, leaves map as it is.
C18_MappingFixed ==
    [][Built' =>
          /\ new_arg'.tag = "Some"
             => map' = new_arg'.val /\ enumerated' = 0 /\ disc_ret' = None
          /\ new_arg' = None
             => /\ map' = disc_ret'.val.map /\ enumerated' = 1
                /\ DOMAIN map'
                      = {format_eth(i) : i \in 0..(Cardinality(EthernetAt) - 1)}
          /\ Built => map' = map /\ new_arg' = new_arg]_vars

\* An instance built from an explicit mapping, with devices the discovery would
\* have mapped otherwise, after a creation and a failed call.
C18_Witness ==
    /\ new_arg = Some("eth0" :> "enp1s0")
    /\ map = ("eth0" :> "enp1s0")
    /\ Len(devices) = 3 /\ enumerated = 0
    /\ created_ifaces = <<"eth0">>
    /\ Len(calls) = 2 /\ calls[1].kind = "call" /\ calls[1].nreq = 1
    /\ calls[2].kind = "call" /\ ~calls[2].ok

----------------------------------------------------------------------------
(* Failures of save (SpecSave) *)

\* Building the address entry of cfg is rejected.
Rejected(cfg, family) == cfg.tag = "Some" /\ cfg.val.prefix > MaxPrefix(family)

\* C19: a save whose v4 or v6 manual configuration is rejected returns the
\* error from that step without a commit request and leaves the manager's
\* connections as they are, also when the v4 step had already been applied; an
\* apply step ends the save only in that case; a failed commit request returns
\* the error, is the only commit request of the save and persists nothing; a
\* save that has returned takes no further step.
C19_FailedApplyNoCommit ==
    [][/\ (save_pc = "ipv4" /\ save_pc' # "ipv4")
          => IF Rejected(self_cfg.val.ipv4cfg, AF_INET)
             THEN /\ save_pc' = "idle" /\ save_ret' = Some("Err")
                  /\ save_log' = <<"ipv4">> /\ conns' = conns
             ELSE save_pc' = "ipv6" /\ save_ret' = None
       /\ (save_pc = "ipv6" /\ save_pc' # "ipv6")
          => IF Rejected(self_cfg.val.ipv6cfg, AF_INET6)
             THEN /\ save_pc' = "idle" /\ save_ret' = Some("Err")
                  /\ save_log' = <<"ipv4", "ipv6">> /\ conns' = conns
             ELSE save_pc' = "commit" /\ save_ret' = None
       /\ (save_pc = "commit" /\ save_pc' # "commit")
          => /\ save_pc' = "idle" /\ save_log' = SaveOrder
             /\ save_ret' = Some("Err") => conns' = conns
       /\ (save_pc = "idle" /\ save_pc' = "idle")
          => save_log' = save_log /\ save_ret' = save_ret]_vars

\* A save whose v6 configuration was rejected after the v4 one was applied: the
\* manager still holds the connection without the v4 change.
C19_Witness ==
    /\ save_pc = "idle" /\ save_ret = Some("Err")
    /\ save_log = <<"ipv4", "ipv6">>
    /\ self_cfg.val.ipv4cfg # None /\ ~Rejected(self_cfg.val.ipv4cfg, AF_INET)
    /\ Rejected(self_cfg.val.ipv6cfg, AF_INET6)
    /\ conns[self_cfg.val.name] = Some(EmptyConnection)
    /\ Reflects(work.val, "ip4", self_cfg.val.ipv4cfg)

----------------------------------------------------------------------------
(* NetworkConfig::new_future (SpecLoad) *)

\* A connection another client configured by hand, and one whose v4 settings
\* report a malformed gateway.
ManualConnection ==
    [ip4 |-> Some([kind |-> "ip4",
                   method |-> Some(SETTING_IP4_CONFIG_METHOD_MANUAL),
                   addresses |-> <<ExtEntry("V4", 1)>>,
                   dns |-> <<AddrTable("V4")[3]>>,
                   gateway |-> Some(AddrTable("V4")[2])]),
     ip6 |-> Some([kind |-> "ip6",
                   method |-> Some(SETTING_IP6_CONFIG_METHOD_AUTO),
                   addresses |-> <<>>, dns |-> <<>>, gateway |-> None])]

MalformedConnection ==
    [ManualConnection EXCEPT !.ip4.val.gateway = Some(Malformed)]

LoadConnections == {EmptyConnection, ManualConnection, MalformedConnection}

LoadInit ==
    /\ devices \in NewSnapshots
    /\ disc_ret = None /\ new_arg = NotBuilt /\ enumerated = 0
    /\ conns \in [Names -> {None, Some(EmptyConnection)}
                             \cup {Some(c) : c \in LoadConnections}]
    /\ conns["eth1"] \in {None, Some(EmptyConnection)}
    /\ conns["eth9"] \in {None, Some(EmptyConnection)}
    /\ connection = EmptyConnection /\ slot = "ip4" /\ lastOp = NoOp
    /\ readback = NotRead
    /\ SaveIdle /\ RegIdle /\ LoadIdle

\* NetworkConfig::new_future(name) is called.
LoadCall ==
    /\ load_pc = "idle"
    /\ \E name \in Names : load_name' = name
    /\ load_pc' = "new"
    /\ load_ret' = None
    /\ new_arg' = NotBuilt /\ disc_ret' = None /\ enumerated' = 0
    /\ map' = <<>> /\ created_ifaces' = <<>> /\ accepted' = <<>>
    /\ res_pc' = "idle" /\ res_name' = "" /\ res_absent' = FALSE
    /\ res_ret' = None /\ requests' = <<>> /\ calls' = <<>>
    /\ UNCHANGED <<applyVars, saveVars, conns, devices>>

\* MapNMManger::new_future(None).await? succeeds.
LoadNew ==
    /\ load_pc = "new"
    /\ new_arg' = None
    /\ enumerated' = enumerated + 1
    /\ disc_ret' = Some([ok |-> TRUE, map |-> get_deafult_mapping(devices)])
    /\ map' = get_deafult_mapping(devices)
    /\ created_ifaces' = <<>>
    /\ load_pc' = "resolve"
    /\ UNCHANGED <<applyVars, saveVars, conns, res_pc, res_name, res_absent,
                   res_ret, requests, calls, accepted, devices, load_name,
                   load_ret>>

\* MapNMManger::new_future(None).await? fails.
LoadNewFail ==
    /\ load_pc = "new"
    /\ new_arg' = None
    /\ disc_ret' = Some([ok |-> FALSE, map |-> <<>>])
    /\ load_pc' = "idle"
    /\ load_ret' = [tag |-> "Err"]
    /\ UNCHANGED <<applyVars, saveVars, regVars, conns, devices, enumerated,
                   load_name>>

\* mapnm_manger.connection_by_name(name) is called.
LoadResolve ==
    /\ load_pc = "resolve" /\ res_ret = None /\ res_name = ""
    /\ ResCall
    /\ res_name' = load_name

\* connection_by_name has returned and new_future has not gone on yet: no await
\* lies between the two, so nothing else runs here.
ReadPending == load_pc = "resolve" /\ res_pc = "idle" /\ res_ret # None

\* The read that also writes the default settings back to the manager.
LoadRead_commits_defaults ==
    /\ ReadPending
    /\ load_pc' = "idle"
    /\ IF res_ret.val.ok
       THEN LET conn == connection_by_id(load_name).val
                ipv4cfg == read_setting(conn, "ip4")
                ipv6cfg == read_setting(conn, "ip6")
                c4 == handle_dhcp(conn, "ip4", 4).conn
                c6 == handle_dhcp(c4, "ip6", 6).conn
            IN  /\ load_ret' = IF ipv4cfg = Panic \/ ipv6cfg = Panic
                               THEN Panic
                               ELSE [tag |-> "Ok",
                                     cfg |-> NetworkConfig(load_name, ipv4cfg,
                                                           ipv6cfg)]
                /\ conns' = [conns EXCEPT ![load_name] = Some(c6)]
       ELSE load_ret' = [tag |-> "Err"] /\ conns' = conns
    /\ UNCHANGED <<applyVars, saveVars, regVars, ctorVars, load_name>>

\* The `?` on connection_by_name, then the two settings are read and the
\* NetworkConfig is returned.
LoadRead ==
    /\ ReadPending
    /\ load_pc' = "idle"
    /\ IF res_ret.val.ok
       THEN LET conn == connection_by_id(load_name).val
                ipv4cfg == read_setting(conn, "ip4")
                ipv6cfg == read_setting(conn, "ip6")
            IN  load_ret' = IF ipv4cfg = Panic \/ ipv6cfg = Panic
                            THEN Panic
                            ELSE [tag |-> "Ok",
                                  cfg |-> NetworkConfig(load_name, ipv4cfg,
                                                        ipv6cfg)]
       ELSE load_ret' = [tag |-> "Err"]
    /\ UNCHANGED <<applyVars, saveVars, regVars, ctorVars, conns, load_name>>

LoadNext ==
    \/ LoadCall
    \/ LoadNew
    \/ LoadNewFail
    \/ LoadResolve
    \/ LoadRead
    \/ ~ReadPending /\ ResExtCreate
    \/ ~ReadPending /\ ResExtDelete
    \/ load_pc = "resolve" /\ ResClientFail
    \/ load_pc = "resolve" /\ ResLookup
    \/ load_pc = "resolve" /\ ResCreate
    \/ load_pc = "resolve" /\ ResCreateFail
    \/ load_pc = "resolve" /\ ResRequery

SpecLoad == LoadInit /\ [][LoadNext]_vars

\* C20: no step of a load changes a settings object of a connection the manager
\* holds, and none is a step of save; the one step of a load that changes the
\* manager is the accepted creation request, its only request, for its own
\* name, mapped and found missing, and it adds a connection without IP
\* settings; a load that returns a config returns it under the name it was
\* given, with what the two settings objects hold.
C20_LoadReadOnly ==
    [][/\ \A n \in Names :
             (conns[n] # None /\ conns'[n] # None) => conns'[n] = conns[n]
       /\ save_pc' = "idle" /\ save_log' = <<>>
       /\ (requests' # requests /\ requests' # <<>>)
          => /\ Len(requests') = 1 /\ requests'[1].conn.id = load_name
             /\ contains_key(map, load_name) /\ res_absent
       /\ (conns' # conns /\ load_pc # "idle"
           /\ <<res_pc, load_pc>>' # <<res_pc, load_pc>>)
          => /\ res_pc = "create" /\ requests'[1].accepted
             /\ conns' = [conns EXCEPT ![load_name] = Some(EmptyConnection)]
       /\ (load_pc # "idle" /\ load_pc' = "idle")
          => /\ Len(requests) <= 1
             /\ load_ret'.tag = "Ok"
                => /\ load_ret'.cfg.name = load_name
                   /\ conns[load_name] # None
                   /\ load_ret'.cfg.ipv4cfg = read_setting(conns[load_name].val, "ip4")
                   /\ load_ret'.cfg.ipv6cfg = read_setting(conns[load_name].val, "ip6")
       ]_vars

\* A load of a mapped name without a connection has created it and returned,
\* with the hand-configured connection of another name as it was.
C20_Witness ==
    /\ load_pc = "idle" /\ load_name = "eth1"
    /\ load_ret = [tag |-> "Ok", cfg |-> NetworkConfig("eth1", None, None)]
    /\ Len(requests) = 1 /\ requests[1].accepted
    /\ conns["eth1"] = Some(EmptyConnection)
    /\ conns["eth0"] = Some(ManualConnection)

====
